---- MODULE Spec2Model ----
(***************************************************************************)
(* cubeglobe: procedural voxel terrain (map::generator) and its isometric  *)
(* renderer (renderer).                                                     *)
(*                                                                         *)
(* Two specifications share the variables:                                 *)
(*   Spec        the generators TerGenOne (generate, generate_slices),     *)
(*               TerGenTwo and TestingGenerator, from the builder calls    *)
(*               to the returned IsoMap;                                   *)
(*   RenderSpec  Renderer::from_config_str and Renderer::render_map.       *)
(*                                                                         *)
(* Numbers.  usize and u32 values are held as the representative of their  *)
(* residue that lies nearest zero: 0 - 1 on usize is -1, which stands for  *)
(* usize::MAX, and an `as isize` / `as i32` cast of it is -1 again.        *)
(* Unsigned comparison is ULt.  A build with overflow checks (the debug    *)
(* profile) panics where the release profile wraps: overflow_checks holds  *)
(* the profile of the build, and both are explored.                        *)
(***************************************************************************)
EXTENDS Integers, Sequences, FiniteSets, TLC

\* ------------------------------------------------------------- bounds
\* Largest edge length a generator is run with.
MaxLen == 4
\* Largest soil depth the layer noise is sampled at.
MaxDepth == 2
\* Largest dim a TestingGenerator is built with.
MaxDim == 7
\* Largest water level drawn: two above MaxLen, so that water_level - 1
\* can pass the end of the z axis.
MaxWater == MaxLen + 2

\* ---------------------------------------------------- program constants
TerGenOne_DEFAULT_LEN == 64
TerGenTwo_DEFAULT_LEN == 64
DEFAULT_LAYER_HEIGHT == 15
DEFAULT_MIN_SOIL_CUTOFF == 45
DEFAULT_MAX_WATER_LEVEL == 40

VARIABLES
    \* ---- the generator object and the build
    gen,              \* "TerGenOne" | "TerGenTwo" | "TestingGenerator":
                      \* the generator in use
    len,              \* self.len
    dim,              \* self.dim              (TestingGenerator)
    layer_height,     \* self.layer_height      (TerGenTwo)
    min_soil_cutoff,  \* self.min_soil_cutoff   (TerGenTwo)
    max_water_level,  \* self.max_water_level   (TerGenTwo)
    overflow_checks,  \* TRUE: arithmetic overflow panics; FALSE: it wraps
    \* ---- one call of generate
    pc,               \* "config" | "generating" | "done" | "panicked" |
                      \* "slicing" | "sliced" (generate_slices)
    panic_msg,        \* the message of the panic, "" without one
    height_noise,     \* column -> the height the height noise gives it
    layer_noise,      \* column -> the soil depth the layer noise gives it
    water_level,      \* drawn once per call
    soil_level,       \* drawn once per call
    isomap,           \* the grid: <<x, y, z>> -> block
    x, y,             \* the column the loops are at
    branch,           \* column -> the branch of the loop body it took
    maps,             \* the snapshots generate_slices has pushed
    \* ---- Renderer::from_config_str
    rpc,              \* "start" | "loading" | "loaded" | "config_error" |
                      \* "rendering" | "ok" | "err" | "panicked"
    parsed,           \* the parsed TilesConfig: <<[width, height, files]>>
    files_with_tiles, \* block -> the tiles the files loaded so far define
    renderer,         \* <<>> or <<[width, height, tiles]>>
    config_error,     \* <<>> or <<the ConfigLoadErrorKind returned>>
    \* ---- one call of Renderer::render_map
    out,              \* <<>> or <<[w, h]>>: the canvas
    current_origin,   \* the pixel position of tile (0, 0) of the floor
    floor,            \* the z of the floor the loops are at
    tile_x, tile_y,   \* the (x, y) of the tile the loops are at
    blits,            \* the blits issued, in order
    lookups,          \* the blocks whose tile list was looked up, in order
    sprite,           \* the index get_random_sprite chose last
    sdl,              \* the SDL call that failed: [op, msg]
    result,           \* what render_map returned: [tag, sdl_err, surface]
    render_panic      \* the message of a panic of render_map, "" without

genVars == <<gen, len, dim, layer_height, min_soil_cutoff, max_water_level,
             overflow_checks, pc, panic_msg, height_noise, layer_noise,
             water_level, soil_level, isomap, x, y, branch, maps>>

renderVars == <<rpc, parsed, files_with_tiles, renderer, config_error, out,
                current_origin, floor, tile_x, tile_y, blits, lookups,
                sprite, sdl, result, render_panic>>

vars == <<genVars, renderVars>>

\* ------------------------------------------------------------ map::Block
BlockEnum == <<"Air", "Rock", "Grass", "Soil", "Water">>
Blocks == {BlockEnum[i] : i \in 1..Len(BlockEnum)}
BlockDefault == "Air"

\* ----------------------------------------------------------- map::IsoMap
Cube(n) == (0..(n-1)) \X (0..(n-1)) \X (0..(n-1))
Columns(n) == (0..(n-1)) \X (0..(n-1))

new_empty(n) == [v \in Cube(n) |-> BlockDefault]

\* Array3::shape: the extent of each axis.
Shape(m) == << Cardinality({v[1] : v \in DOMAIN m}),
               Cardinality({v[2] : v \in DOMAIN m}),
               Cardinality({v[3] : v \in DOMAIN m}) >>

\* IsoMap::len: the length of axis 0.
IsoLen(m) == Cardinality({v[1] : v \in DOMAIN m})

\* No grid: before generate creates one, and after a panic dropped it.
NoMap == << >>

\* --------------------------------------------------- integer arithmetic
\* a - b on usize.  panic: the build checks overflow and a < b.
USub(a, b, checks) == [panic |-> checks /\ a < b, val |-> a - b]

\* a < b on usize, on representatives: a negative one is a value near the
\* top of the range.
ULt(a, b) ==
    \/ a >= 0 /\ b >= 0 /\ a < b
    \/ a >= 0 /\ b < 0
    \/ a < 0 /\ b < 0 /\ a < b

\* usize::saturating_sub
SaturatingSub(a, b) == IF b > a THEN 0 ELSE a - b

\* ------------------------------------------------------ ndarray slicing
\* abs_index: a negative index counts from the end of the axis.
AbsIndex(axis_len, index) == IF index < 0 THEN axis_len + index ELSE index

\* s![.., start..end] on an axis of length axis_len (start and end after
\* their cast to isize): the indices selected, or a panic when the begin or
\* the end is past the end of the axis.  An end before the begin is the
\* empty slice.
SliceRange(axis_len, start, end) ==
    LET s == AbsIndex(axis_len, start)
        e0 == AbsIndex(axis_len, end)
        e == IF e0 < s THEN s ELSE e0
    IN  IF s < 0 \/ s > axis_len \/ e > axis_len
        THEN [panic |-> TRUE, zs |-> {}]
        ELSE [panic |-> FALSE, zs |-> s..(e-1)]

\* slice_mut(s![x, y, zs]).fill(b)
Fill(m, cx, cy, zs, b) ==
    [v \in DOMAIN m |->
        IF v[1] = cx /\ v[2] = cy /\ v[3] \in zs THEN b ELSE m[v]]

\* The messages of the panics.
SubOverflow == "attempt to subtract with overflow"
SlicePastEnd == "Slice begin or end is past end of axis"
IndexOutOfBounds == "ndarray: index out of bounds"
GenRangeEmpty == "Rng.gen_range called with low >= high"

\* The result of a loop body: the grid, or a panic.
Ok(m) == [panic |-> FALSE, map |-> m, msg |-> ""]
Panic(msg) == [panic |-> TRUE, map |-> NoMap, msg |-> msg]

\* ------------------------------------------------------------ the noise
\* A noise field is a function of the column.  The height fields sampled
\* are the ones worth two values, a on the columns with x + y even and b on
\* the others; the layer fields sampled are the level ones.
Checker(n, a, b) ==
    [c \in Columns(n) |-> IF (c[1] + c[2]) % 2 = 0 THEN a ELSE b]

Level(n, d) == [c \in Columns(n) |-> d]

Min(a, b) == IF a < b THEN a ELSE b

\* ------------------------------------------------- TerGenOne::generate
\* Mutant of OneSlice: the slice stops one short, as the rock of the water
\* branch of TerGenTwo does.
OneSliceShort(axis_len, height) == SliceRange(axis_len, 0, height - 1)

\* s![x, y, 0..height]
OneSlice(axis_len, height) == SliceRange(axis_len, 0, height)

\* The body of the loops: the column (cx, cy) of height `height`.
OneColumn(m, cx, cy, height) ==
    LET s == OneSlice(Shape(m)[3], height)
    IN  IF s.panic THEN Panic(SlicePastEnd)
        ELSE Ok(Fill(m, cx, cy, s.zs, "Rock"))

\* ------------------------------------------------- TerGenTwo::generate
\* The branch of the loop body a column of height `height` takes.
TwoBranch(height, wl, sl) ==
    IF height < wl THEN "water"
    ELSE IF height < sl THEN "soil"
    ELSE "rock"

\* height < water_level: rock, and then water up to the water level.
WaterBranch(m, cx, cy, height, wl, checks) ==
    LET n == Shape(m)[3]
        top == USub(height, 1, checks)
        s1 == SliceRange(n, 0, top.val)
        end == USub(wl, 1, checks)
        s2 == SliceRange(n, top.val, end.val)
    IN  IF top.panic THEN Panic(SubOverflow)
        ELSE IF s1.panic THEN Panic(SlicePastEnd)
        ELSE IF end.panic THEN Panic(SubOverflow)
        ELSE IF s2.panic THEN Panic(SlicePastEnd)
        ELSE Ok(Fill(Fill(m, cx, cy, s1.zs, "Rock"), cx, cy, s2.zs, "Water"))

\* rock_height: what is left of the height under the soil.
RockHeight(height, soil_depth) == SaturatingSub(height, soil_depth)

\* `if rock_height < height-1`: the soil between the rock and the grass.
SoilLayer(m, cx, cy, rock_height, height, checks) ==
    LET top == USub(height, 1, checks)
        s == SliceRange(Shape(m)[3], rock_height, top.val)
    IN  IF top.panic THEN Panic(SubOverflow)
        ELSE IF ~ULt(rock_height, top.val) THEN Ok(m)
        ELSE IF s.panic THEN Panic(SlicePastEnd)
        ELSE Ok(Fill(m, cx, cy, s.zs, "Soil"))

\* Mutant of GrassCap: the grass is under the guard of the soil,
\* rock_height < height - 1.
GrassCapUnderSoilGuard(m, cx, cy, rock_height, height) ==
    IF ~(rock_height < height - 1) THEN Ok(m)
    ELSE IF <<cx, cy, height - 1>> \notin DOMAIN m
         THEN Panic(IndexOutOfBounds)
    ELSE Ok([m EXCEPT ![<<cx, cy, height - 1>>] = "Grass"])

\* `if rock_height < height`: the single block of grass on top.
GrassCap(m, cx, cy, rock_height, height) ==
    IF ~(rock_height < height) THEN Ok(m)
    ELSE IF <<cx, cy, height - 1>> \notin DOMAIN m
         THEN Panic(IndexOutOfBounds)
    ELSE Ok([m EXCEPT ![<<cx, cy, height - 1>>] = "Grass"])

\* water_level <= height < soil_level: rock, then soil, then grass.
SoilBranch(m, cx, cy, height, soil_depth, checks) ==
    LET rock_height == RockHeight(height, soil_depth)
        s == SliceRange(Shape(m)[3], 0, rock_height)
        m1 == Fill(m, cx, cy, s.zs, "Rock")
        r2 == SoilLayer(m1, cx, cy, rock_height, height, checks)
    IN  IF s.panic THEN Panic(SlicePastEnd)
        ELSE IF r2.panic THEN r2
        ELSE GrassCap(r2.map, cx, cy, rock_height, height)

\* soil_level <= height: just rock.
RockBranch(m, cx, cy, height) ==
    LET s == SliceRange(Shape(m)[3], 0, height)
    IN  IF s.panic THEN Panic(SlicePastEnd)
        ELSE Ok(Fill(m, cx, cy, s.zs, "Rock"))

\* The body of the loops: the column (cx, cy).
TwoColumn(m, cx, cy, height, soil_depth, wl, sl, checks) ==
    LET b == TwoBranch(height, wl, sl)
    IN  IF b = "water" THEN WaterBranch(m, cx, cy, height, wl, checks)
        ELSE IF b = "soil" THEN SoilBranch(m, cx, cy, height, soil_depth, checks)
        ELSE RockBranch(m, cx, cy, height)

\* ------------------------------------------------------------- actions
\* The dim of a TestingGenerator.
Dims == 0..MaxDim

\* The values the builder calls are made with.
LayerHeights == {0}
MinSoilCutoffs == {0}
MaxWaterLevels == {0}

\* TerGenOne::new() or TerGenTwo::new(), built with or without overflow
\* checks.
GenInit ==
    /\ gen \in {"TerGenOne", "TerGenTwo", "TestingGenerator"}
    /\ dim \in IF gen = "TestingGenerator" THEN Dims ELSE {0}
    /\ overflow_checks \in BOOLEAN
    /\ len = IF gen = "TerGenOne" THEN TerGenOne_DEFAULT_LEN
             ELSE TerGenTwo_DEFAULT_LEN
    /\ layer_height = IF gen = "TerGenTwo" THEN DEFAULT_LAYER_HEIGHT ELSE 0
    /\ min_soil_cutoff = IF gen = "TerGenTwo" THEN DEFAULT_MIN_SOIL_CUTOFF ELSE 0
    /\ max_water_level = IF gen = "TerGenTwo" THEN DEFAULT_MAX_WATER_LEVEL ELSE 0
    /\ pc = "config"
    /\ panic_msg = ""
    /\ height_noise = << >>
    /\ layer_noise = << >>
    /\ water_level = 0
    /\ soil_level = 0
    /\ isomap = NoMap
    /\ x = 0
    /\ y = 0
    /\ branch = << >>
    /\ maps = << >>

callVars == <<pc, panic_msg, height_noise, layer_noise, water_level, soil_level,
              isomap, x, y, branch, maps>>

\* set_len, of either generator
SetLen(l) ==
    /\ pc = "config"
    /\ gen \in {"TerGenOne", "TerGenTwo"}
    /\ len' = l
    /\ UNCHANGED <<dim, gen, layer_height, min_soil_cutoff, max_water_level,
                   overflow_checks, callVars, renderVars>>

SetLayerHeight(h) ==
    /\ pc = "config"
    /\ gen = "TerGenTwo"
    /\ layer_height' = h
    /\ UNCHANGED <<dim, gen, len, min_soil_cutoff, max_water_level,
                   overflow_checks, callVars, renderVars>>

SetMaxWaterLevel(w) ==
    /\ pc = "config"
    /\ gen = "TerGenTwo"
    /\ max_water_level' = w
    /\ UNCHANGED <<dim, gen, len, layer_height, min_soil_cutoff,
                   overflow_checks, callVars, renderVars>>

SetMinSoilCutoff(s) ==
    /\ pc = "config"
    /\ gen = "TerGenTwo"
    /\ min_soil_cutoff' = s
    /\ UNCHANGED <<dim, gen, len, layer_height, max_water_level,
                   overflow_checks, callVars, renderVars>>

cfgVars == <<gen, len, dim, layer_height, min_soil_cutoff, max_water_level,
             overflow_checks>>

\* A panic unwinds generate where it stands: the grid is dropped and
\* nothing is returned.
Unwind(msg) ==
    /\ pc' = "panicked"
    /\ panic_msg' = msg
    /\ isomap' = NoMap
    /\ maps' = << >>
    /\ UNCHANGED <<height_noise, layer_noise, water_level, soil_level,
                   x, y, branch>>

\* The loops start at column (0, 0) of the grid m; an empty grid is
\* returned at once.
EnterLoops(m) ==
    /\ isomap' = m
    /\ x' = 0
    /\ y' = 0
    /\ branch' = << >>
    /\ maps' = << >>
    /\ panic_msg' = ""
    /\ pc' = IF IsoLen(m) = 0 THEN "done" ELSE "generating"

\* The loops move on from column (x, y) with the grid m.
NextColumn(m, b) ==
    /\ isomap' = m
    /\ branch' = (<<x, y>> :> b) @@ branch
    /\ IF y + 1 < IsoLen(m)
       THEN x' = x /\ y' = y + 1 /\ pc' = "generating"
       ELSE /\ x' = x + 1
            /\ y' = 0
            /\ pc' = IF x + 1 < IsoLen(m) THEN "generating" ELSE "done"
    /\ UNCHANGED <<panic_msg, height_noise, layer_noise, water_level,
                   soil_level, maps>>

\* TerGenOne::generate, up to the loops: the noise is seeded.
OneGenerate ==
    /\ pc = "config"
    /\ gen = "TerGenOne"
    /\ len <= MaxLen
    /\ \E a, b \in 0..len :
          height_noise' = Checker(len, a, b)
    /\ layer_noise' = << >>
    /\ water_level' = 0
    /\ soil_level' = 0
    /\ EnterLoops(new_empty(len))
    /\ UNCHANGED <<cfgVars, renderVars>>

\* TerGenOne::generate, the body of the loops at column (x, y).
OneStep ==
    /\ pc = "generating"
    /\ gen = "TerGenOne"
    /\ LET r == OneColumn(isomap, x, y, height_noise[<<x, y>>])
       IN  IF r.panic THEN Unwind(r.msg) ELSE NextColumn(r.map, "fill")
    /\ UNCHANGED <<cfgVars, renderVars>>

\* TerGenTwo::generate, up to the loops: the noises are seeded and the two
\* levels drawn.  gen_range(low, high) panics when low >= high.
TwoGenerate ==
    /\ pc = "config"
    /\ gen = "TerGenTwo"
    /\ len <= MaxLen
    /\ \E wl \in 0..Min(max_water_level, MaxWater) :
          IF min_soil_cutoff >= len
          THEN /\ water_level' = wl
               /\ pc' = "panicked"
               /\ panic_msg' = GenRangeEmpty
               /\ UNCHANGED <<height_noise, layer_noise, soil_level,
                              isomap, x, y, branch, maps>>
          ELSE \E sl \in min_soil_cutoff..(len - 1) :
               \E a, b \in 0..len :
               \E d \in 0..Min(layer_height, MaxDepth) :
                  /\ water_level' = wl
                  /\ soil_level' = sl
                  /\ height_noise' = Checker(len, a, b)
                  /\ layer_noise' = Level(len, d)
                  /\ EnterLoops(new_empty(len))
    /\ UNCHANGED <<cfgVars, renderVars>>

\* TerGenTwo::generate, the body of the loops at column (x, y).
TwoStep ==
    /\ pc = "generating"
    /\ gen = "TerGenTwo"
    /\ LET height == height_noise[<<x, y>>]
           r == TwoColumn(isomap, x, y, height, layer_noise[<<x, y>>],
                          water_level, soil_level, overflow_checks)
       IN  IF r.panic THEN Unwind(r.msg)
           ELSE NextColumn(r.map, TwoBranch(height, water_level, soil_level))
    /\ UNCHANGED <<cfgVars, renderVars>>

\* Mutant of SliceDone: a snapshot after every column.
SliceDoneEveryColumn(cy, n) == TRUE

\* The loop over y has run its last iteration: the x-slice is complete.
SliceDone(cy, n) == ~(cy + 1 < n)

\* isomap.clone()
Clone(m) == m

\* TerGenOne::generate_slices, up to the loops: the noise is seeded, the
\* vector of snapshots is empty.
OneGenerateSlices ==
    /\ pc = "config"
    /\ gen = "TerGenOne"
    /\ len <= MaxLen
    /\ \E a, b \in 0..len :
          height_noise' = Checker(len, a, b)
    /\ layer_noise' = << >>
    /\ water_level' = 0
    /\ soil_level' = 0
    /\ isomap' = new_empty(len)
    /\ maps' = << >>
    /\ x' = 0
    /\ y' = 0
    /\ branch' = << >>
    /\ panic_msg' = ""
    /\ pc' = IF len = 0 THEN "sliced" ELSE "slicing"
    /\ UNCHANGED <<cfgVars, renderVars>>

\* TerGenOne::generate_slices, the body of the loops at column (x, y), and
\* the push of the snapshot when the column is the last of its x-slice.
OneSlicesStep ==
    /\ pc = "slicing"
    /\ gen = "TerGenOne"
    /\ LET r == OneColumn(isomap, x, y, height_noise[<<x, y>>])
           n == IsoLen(isomap)
       IN  IF r.panic THEN Unwind(r.msg)
           ELSE /\ isomap' = r.map
                /\ branch' = (<<x, y>> :> "fill") @@ branch
                /\ maps' = IF SliceDone(y, n) THEN Append(maps, Clone(r.map))
                           ELSE maps
                /\ IF y + 1 < n
                   THEN x' = x /\ y' = y + 1 /\ pc' = "slicing"
                   ELSE /\ x' = x + 1
                        /\ y' = 0
                        /\ pc' = IF x + 1 < n THEN "slicing" ELSE "sliced"
                /\ UNCHANGED <<panic_msg, height_noise, layer_noise,
                               water_level, soil_level>>
    /\ UNCHANGED <<cfgVars, renderVars>>

GenNext ==
    \/ \E l \in 1..MaxLen : SetLen(l)
    \/ \E h \in LayerHeights : SetLayerHeight(h)
    \/ \E w \in MaxWaterLevels : SetMaxWaterLevel(w)
    \/ \E s \in MinSoilCutoffs : SetMinSoilCutoff(s)
    \/ OneGenerate
    \/ OneStep
    \/ OneGenerateSlices
    \/ OneSlicesStep
    \/ TwoGenerate
    \/ TwoStep

\* ------------------------------------------ TestingGenerator::generate
\* slice_mut(s![x0..x1, y0..y1, z0..z1]).fill(b); a panic of a slice is
\* NoMap.
FillBox(m, xr, yr, zr, b) ==
    LET sh == Shape(m)
        sx == SliceRange(sh[1], xr[1], xr[2])
        sy == SliceRange(sh[2], yr[1], yr[2])
        sz == SliceRange(sh[3], zr[1], zr[2])
    IN  IF sx.panic \/ sy.panic \/ sz.panic THEN NoMap
        ELSE [v \in DOMAIN m |->
                 IF v[1] \in sx.zs /\ v[2] \in sy.zs /\ v[3] \in sz.zs
                 THEN b ELSE m[v]]

\* Mutant of TestingGenerate: a dim below 6 is not pegged.
TestingGenerateUnpegged(self_dim) ==
    LET d == self_dim
        halfway == d \div 2
        m0 == new_empty(d)
        m1 == FillBox(m0, <<0, d>>, <<0, d>>, <<0, halfway>>, "Rock")
    IN  IF m1 = NoMap THEN NoMap
        ELSE FillBox(m1, <<2, d - 2>>, <<2, d - 2>>,
                     <<halfway, halfway + 1>>, "Rock")

TestingGenerate(self_dim) ==
    LET d == IF self_dim >= 6 THEN self_dim ELSE 6
        halfway == d \div 2
        m0 == new_empty(d)
        m1 == FillBox(m0, <<0, d>>, <<0, d>>, <<0, halfway>>, "Rock")
    IN  FillBox(m1, <<2, d - 2>>, <<2, d - 2>>, <<halfway, halfway + 1>>,
                "Rock")

\* TestingGenerator::generate: it runs no loop, the grid is returned at
\* once.
TestingGenerateCall ==
    /\ pc = "config"
    /\ gen = "TestingGenerator"
    /\ LET m == TestingGenerate(dim)
       IN  IF m = NoMap
           THEN /\ pc' = "panicked"
                /\ panic_msg' = SlicePastEnd
                /\ isomap' = NoMap
           ELSE /\ pc' = "done"
                /\ panic_msg' = ""
                /\ isomap' = m
    /\ UNCHANGED <<height_noise, layer_noise, water_level, soil_level, x, y,
                   branch, maps>>
    /\ UNCHANGED <<cfgVars, renderVars>>

\* ---------------------------------------------- the renderer's inputs
\* Largest edge length of the small grids rendered.
MaxRenderLen == 2
\* Most files a descriptor names, and most tiles it defines in all.
MaxFiles == 2
MaxTiles == 5

\* The tile sizes (width, height) of the descriptors: the one of the test
\* assets, a flat tile (height = width / 2), one lower than its top face,
\* one of odd width, one whose width is no multiple of 4, and a tile of
\* one pixel.
TileSizes == {<<24, 26>>, <<4, 2>>, <<4, 1>>, <<5, 3>>, <<6, 5>>, <<1, 1>>}

\* The messages SDL fails with.
SdlMessages == {"Out of memory", "Blit combination not supported"}

\* The dim the testing generator is run with.
TestDims == {1}

\* A grid of edge n: the columns with x + y even hold col, the others col
\* upside down.
SmallGrid(n, col) ==
    [v \in Cube(n) |->
        IF (v[1] + v[2]) % 2 = 0 THEN col[v[3]] ELSE col[n - 1 - v[3]]]

\* The grids render_map is called with.
RenderGrids ==
    {TestingGenerate(d) : d \in TestDims}
    \cup UNION {{SmallGrid(n, col) : col \in [0..(n-1) -> Blocks]} :
                  n \in 1..MaxRenderLen}

\* Option and Result values: None is <<>>, Some(v) is <<v>>.
None == << >>
Some(v) == <<v>>

NoTiles == [b \in Blocks |-> 0]
NoSdlFailure == [op |-> "", msg |-> ""]
NoResult == [tag |-> "none", sdl_err |-> "", surface |-> None]

\* --------------------------------------------- Renderer::from_config_str
\* The tile definitions of one file: at most n of them.
TileDefs(n) == UNION {[1..k -> Blocks] : k \in 0..n}

Count(f) ==
    LET RECURSIVE Sum(_)
        Sum(S) == IF S = {} THEN 0
                  ELSE LET b == CHOOSE c \in S : TRUE
                       IN  f[b] + Sum(S \ {b})
    IN  Sum(DOMAIN f)

\* The tiles of a file added to those of the files before it.
AddTiles(acc, defs) ==
    [b \in Blocks |-> acc[b] + Cardinality({i \in DOMAIN defs : defs[i] = b})]

\* tiles_map: an entry (a vector of tiles, here its length) for each block
\* some tile names.
TilesMap(acc) == [b \in {c \in Blocks : acc[c] > 0} |-> acc[b]]

\* Mutant of NeedsNoTile: Grass is not checked either.
NeedsNoTileOrGrass(b) == b \in {"Air", "Grass"}

\* Whether the check of block b against the map is skipped.
NeedsNoTile(b) == b = "Air"

\* "Ensure each block has at least one tile": the first block, in the order
\* of the enum, that needs tiles and has no entry; None when there is none.
FirstMissing(tiles) ==
    LET missing == {i \in 1..Len(BlockEnum) :
                       /\ ~NeedsNoTile(BlockEnum[i])
                       /\ BlockEnum[i] \notin DOMAIN tiles}
    IN  IF missing = {} THEN None
        ELSE Some(BlockEnum[CHOOSE i \in missing : \A j \in missing : i <= j])

\* The variables of a call of render_map.
callRenderVars == <<out, current_origin, floor, tile_x, tile_y, blits,
                    lookups, sprite, sdl, result, render_panic>>

\* toml::from_str: the descriptor does not parse, or it gives the size of
\* the tiles and names n files.
ParseConfig ==
    /\ rpc = "start"
    /\ \/ /\ rpc' = "config_error"
          /\ config_error' = Some([kind |-> "TomlParseError", block |-> "",
                                   msg |-> ""])
          /\ UNCHANGED parsed
       \/ \E size \in TileSizes, n \in 0..MaxFiles :
             /\ parsed' = Some([width |-> size[1], height |-> size[2],
                                files |-> n])
             /\ rpc' = "loading"
             /\ UNCHANGED config_error
    /\ UNCHANGED <<files_with_tiles, renderer, callRenderVars, genVars>>

\* The closure over the files, at the next file: its image fails to load,
\* or its tile definitions are taken.
LoadFile ==
    /\ rpc = "loading"
    /\ parsed[1].files > 0
    /\ \/ \E m \in SdlMessages :
             /\ rpc' = "config_error"
             /\ config_error' = Some([kind |-> "SDLError", block |-> "",
                                      msg |-> m])
             /\ UNCHANGED <<parsed, files_with_tiles>>
       \/ \E defs \in TileDefs(MaxTiles - Count(files_with_tiles)) :
             /\ files_with_tiles' = AddTiles(files_with_tiles, defs)
             /\ parsed' = Some([parsed[1] EXCEPT !.files = @ - 1])
             /\ UNCHANGED <<rpc, config_error>>
    /\ UNCHANGED <<renderer, callRenderVars, genVars>>

\* The rest of from_config_str, once every file is loaded: the map is
\* built and checked.
BuildAtlas ==
    /\ rpc = "loading"
    /\ parsed[1].files = 0
    /\ LET tiles_map == TilesMap(files_with_tiles)
           missing == FirstMissing(tiles_map)
       IN  IF missing # None
           THEN /\ rpc' = "config_error"
                /\ config_error' = Some([kind |-> "MissingBlock",
                                         block |-> missing[1], msg |-> ""])
                /\ UNCHANGED renderer
           ELSE /\ rpc' = "loaded"
                /\ renderer' = Some([width |-> parsed[1].width,
                                     height |-> parsed[1].height,
                                     tiles |-> tiles_map])
                /\ UNCHANGED config_error
    /\ UNCHANGED <<parsed, files_with_tiles, callRenderVars, genVars>>

\* -------------------------------------------------- Renderer::render_map
\* Mutant of RendererErrorFrom: the message is dropped.
RendererErrorBlank(msg) == ""

\* impl From<String> for RendererError
RendererErrorFrom(msg) == msg

Err(msg) == [tag |-> "Err", sdl_err |-> RendererErrorFrom(msg),
             surface |-> None]

\* top_height
TopHeight(width) == width \div 2

\* sides_height, a subtraction on u32
SidesHeight(width, height, checks) ==
    USub(height, TopHeight(width), checks)

\* floor_height
FloorHeight(n, top_height, sides_height) == (n * top_height) + sides_height

\* surf_width
SurfWidth(width, n) == (width * n) + (width * 2)

\* Mutant of SurfHeight: no room for the margins above and below.
SurfHeightNoMargin(height, n, floor_height, sides_height) ==
    floor_height + (sides_height * n)

\* surf_height
SurfHeight(height, n, floor_height, sides_height) ==
    floor_height + (sides_height * n) + (height * 2)

\* Mutant of FirstOrigin: the origin does not go up by the height of the
\* floor.
FirstOriginAtBottom(width, height, surf_width, surf_height, floor_height) ==
    [x |-> (surf_width \div 2) - (width \div 2),
     y |-> surf_height - height]

\* The origin of floor 0.
FirstOrigin(width, height, surf_width, surf_height, floor_height) ==
    [x |-> (surf_width \div 2) - (width \div 2),
     y |-> surf_height - height - floor_height]

\* Point::offset
Offset(p, dx, dy) == [x |-> p.x + dx, y |-> p.y + dy]

\* Mutant of get_tile_pos: the step along the x axis of the canvas is the
\* quarter of the width too.
get_tile_pos_quarter(width, origin, x_index, y_index) ==
    Offset(origin, (x_index - y_index) * (width \div 4),
                   (x_index + y_index) * (width \div 4))

\* get_tile_pos
get_tile_pos(width, origin, x_index, y_index) ==
    Offset(origin, (x_index - y_index) * (width \div 2),
                   (x_index + y_index) * (width \div 4))

\* Mutant of FloorAbove: the origin stays where it is.
FloorAboveStays(origin, sides_height) == origin

\* "Shift to the floor above"
FloorAbove(origin, sides_height) == Offset(origin, 0, -sides_height)

MissingTiles == "renderer config missing tiles for a block type"
EmptyTiles == "renderer config has an empty vector for a block type"

\* get_random_sprite: the indices it may return, or the panic of its
\* expects.
get_random_sprite(tiles, tile_type) ==
    IF tile_type \notin DOMAIN tiles
    THEN [panic |-> MissingTiles, choices |-> {}]
    ELSE IF tiles[tile_type] = 0
    THEN [panic |-> EmptyTiles, choices |-> {}]
    ELSE [panic |-> "", choices |-> 1..tiles[tile_type]]

\* Mutant of Skipped: nothing is skipped.
SkippedNever(tile) == FALSE

\* Whether the loops draw nothing for a tile.
Skipped(tile) == tile = "Air"

\* render_map returns without a surface: a failed SDL call, or a panic.
Leave(pcv, failure, res, panic) ==
    /\ rpc' = pcv
    /\ sdl' = failure
    /\ result' = res
    /\ render_panic' = panic
    /\ out' = None

\* render_map up to the loops: the sizes, the canvas, its background, the
\* first origin.
RenderStart ==
    /\ rpc = "loaded"
    /\ \E grid \in RenderGrids :
       LET r == renderer[1]
           n == IsoLen(grid)
           top_height == TopHeight(r.width)
           sides == SidesHeight(r.width, r.height, overflow_checks)
           floor_height == FloorHeight(n, top_height, sides.val)
           surf_width == SurfWidth(r.width, n)
           surf_height == SurfHeight(r.height, n, floor_height, sides.val)
       IN  /\ isomap' = grid
           /\ floor' = 0
           /\ tile_x' = 0
           /\ tile_y' = 0
           /\ UNCHANGED <<blits, lookups, sprite>>
           /\ IF sides.panic
              THEN /\ Leave("panicked", NoSdlFailure, NoResult, SubOverflow)
                   /\ UNCHANGED current_origin
              ELSE \/ \E m \in SdlMessages :
                         /\ Leave("err", [op |-> "Surface::new", msg |-> m],
                                  Err(m), "")
                         /\ UNCHANGED current_origin
                   \/ \E m \in SdlMessages :
                         /\ Leave("err", [op |-> "fill_rect", msg |-> m],
                                  Err(m), "")
                         /\ UNCHANGED current_origin
                   \/ /\ out' = Some([w |-> surf_width, h |-> surf_height])
                      /\ current_origin' =
                            FirstOrigin(r.width, r.height, surf_width,
                                        surf_height, floor_height)
                      /\ rpc' = "rendering"
                      /\ UNCHANGED <<sdl, result, render_panic>>
    /\ UNCHANGED <<parsed, files_with_tiles, renderer, config_error>>
    /\ UNCHANGED <<cfgVars, pc, panic_msg, height_noise, layer_noise,
                   water_level, soil_level, x, y, branch, maps>>

\* The loops move on from tile (tile_x, tile_y) of the floor; past the last
\* tile of a floor the origin shifts to the floor above, and past the last
\* floor the canvas is returned.
NextTile ==
    LET sh == Shape(isomap)
        r == renderer[1]
    IN  IF tile_y + 1 < sh[2]
        THEN /\ tile_y' = tile_y + 1
             /\ UNCHANGED <<tile_x, floor, current_origin, rpc, result, out>>
        ELSE IF tile_x + 1 < sh[1]
        THEN /\ tile_x' = tile_x + 1
             /\ tile_y' = 0
             /\ UNCHANGED <<floor, current_origin, rpc, result, out>>
        ELSE /\ tile_x' = 0
             /\ tile_y' = 0
             /\ floor' = floor + 1
             /\ current_origin' =
                   FloorAbove(current_origin,
                              SidesHeight(r.width, r.height, FALSE).val)
             /\ IF floor + 1 < sh[3]
                THEN UNCHANGED <<rpc, result, out>>
                ELSE /\ rpc' = "ok"
                     /\ result' = [tag |-> "Ok", sdl_err |-> "",
                                   surface |-> out]
                     /\ UNCHANGED out

\* The body of the loops at tile (tile_x, tile_y) of the floor.
RenderTile ==
    /\ rpc = "rendering"
    /\ LET r == renderer[1]
           tile == isomap[<<tile_x, tile_y, floor>>]
           tile_dest == get_tile_pos(r.width, current_origin, tile_x, tile_y)
           found == get_random_sprite(r.tiles, tile)
           blit(ok) == [x |-> tile_x, y |-> tile_y, z |-> floor,
                        kind |-> tile, dest_x |-> tile_dest.x,
                        dest_y |-> tile_dest.y, w |-> r.width,
                        h |-> r.height, ok |-> ok]
       IN  IF Skipped(tile)
           THEN /\ NextTile
                /\ UNCHANGED <<blits, lookups, sprite, sdl, render_panic>>
           ELSE /\ lookups' = Append(lookups, tile)
                /\ IF found.panic # ""
                   THEN /\ Leave("panicked", NoSdlFailure, NoResult,
                                 found.panic)
                        /\ UNCHANGED <<blits, sprite, current_origin, floor,
                                       tile_x, tile_y>>
                   ELSE \E i \in found.choices :
                        /\ sprite' = i
                        /\ \/ /\ blits' = Append(blits, blit(TRUE))
                              /\ NextTile
                              /\ UNCHANGED <<sdl, render_panic>>
                           \/ \E m \in SdlMessages :
                              /\ blits' = Append(blits, blit(FALSE))
                              /\ Leave("err", [op |-> "blit", msg |-> m],
                                       Err(m), "")
                              /\ UNCHANGED <<current_origin, floor, tile_x,
                                             tile_y>>
    /\ UNCHANGED <<isomap, parsed, files_with_tiles, renderer, config_error>>
    /\ UNCHANGED <<cfgVars, pc, panic_msg, height_noise, layer_noise,
                   water_level, soil_level, x, y, branch, maps>>

\* ------------------------------------------------- the specifications
\* No renderer and no call of render_map.
RenderIdle ==
    /\ rpc = "start"
    /\ parsed = None
    /\ files_with_tiles = NoTiles
    /\ renderer = None
    /\ config_error = None
    /\ out = None
    /\ current_origin = [x |-> 0, y |-> 0]
    /\ floor = 0
    /\ tile_x = 0
    /\ tile_y = 0
    /\ blits = << >>
    /\ lookups = << >>
    /\ sprite = 0
    /\ sdl = NoSdlFailure
    /\ result = NoResult
    /\ render_panic = ""

\* No generator.
GenIdle ==
    /\ gen = "none"
    /\ overflow_checks \in BOOLEAN
    /\ len = 0
    /\ dim = 0
    /\ layer_height = 0
    /\ min_soil_cutoff = 0
    /\ max_water_level = 0
    /\ pc = "config"
    /\ panic_msg = ""
    /\ height_noise = << >>
    /\ layer_noise = << >>
    /\ water_level = 0
    /\ soil_level = 0
    /\ isomap = NoMap
    /\ x = 0
    /\ y = 0
    /\ branch = << >>
    /\ maps = << >>

RenderNext ==
    \/ ParseConfig
    \/ LoadFile
    \/ BuildAtlas
    \/ RenderStart
    \/ RenderTile

\* The generators.
Init == GenInit /\ RenderIdle
Next == GenNext \/ TestingGenerateCall
Spec == Init /\ [][Next]_vars

\* The renderer.
RenderInit == GenIdle /\ RenderIdle
RenderSpec == RenderInit /\ [][RenderNext]_vars

\* ------------------------------------------------ columns of the grid
\* The z of the non-Air voxels of column c of the grid m.
Filled(m, c) == {z \in 0..(Shape(m)[3] - 1) : m[<<c[1], c[2], z>>] # "Air"}

\* The z of the voxels of column c that hold block b.
Holding(m, c, b) == {z \in 0..(Shape(m)[3] - 1) : m[<<c[1], c[2], z>>] = b}

Top(zs) == CHOOSE z \in zs : \A w \in zs : w <= z

\* The columns the loops have left behind.
Processed == DOMAIN branch

\* ---------------------------------------------------------------- C1
\* C1: with min_soil_cutoff < len and heights in 0..len neither generate
\* aborts, a column of height 0 included: the only panic would be the one
\* of gen_range on a soil cutoff that is no lower than the edge length.
\* Stated on the calls that draw a water level inside the grid
\* (water_level <= len).
C1_GeneratorsNeverAbort ==
    (pc = "panicked" /\ water_level <= len) =>
        (gen = "TerGenTwo" /\ min_soil_cutoff >= len)

\* ---------------------------------------------------------------- C2
\* The branch a processed column took is the one the strict comparisons
\* of its height with the two levels name.
BandsByStrictComparison ==
    \A c \in Processed :
        LET h == height_noise[c]
        IN  /\ branch[c] = "water" <=> h < water_level
            /\ branch[c] = "soil"  <=> (water_level <= h /\ h < soil_level)
            /\ branch[c] = "rock"  <=> (water_level <= h /\ soil_level <= h)

\* Column c ends in one block of grass at z = height - 1, its only grass.
GrassOnTop(c) ==
    /\ Filled(isomap, c) # {}
    /\ Top(Filled(isomap, c)) = height_noise[c] - 1
    /\ Holding(isomap, c, "Grass") = {height_noise[c] - 1}

\* C2 as claimed: in TerGenTwo every column takes the branch of the strict
\* comparisons, and a column of the soil branch that holds any voxel has
\* grass as its topmost voxel, at z = height - 1, and no other grass,
\* whatever the soil depth.  Stated on the columns whose height is at
\* least 1, where no subtraction overflows.
C2_GrassTopsEverySoilColumn ==
    (gen = "TerGenTwo" /\ pc \in {"generating", "done"}) =>
        /\ BandsByStrictComparison
        /\ \A c \in Processed :
              (/\ branch[c] = "soil"
               /\ height_noise[c] >= 1
               /\ Filled(isomap, c) # {}) => GrassOnTop(c)

\* C2 as amended: the grass is there when the soil depth leaves room for
\* it above the rock (height >= 1 and soil depth >= 1); with soil depth 0
\* the column is rock up to its height and holds no grass.
C2_GrassTopsSoilColumnWithDepth ==
    (gen = "TerGenTwo" /\ pc \in {"generating", "done"}) =>
        /\ BandsByStrictComparison
        /\ \A c \in Processed :
              (branch[c] = "soil" /\ height_noise[c] >= 1) =>
                  IF layer_noise[c] >= 1
                  THEN GrassOnTop(c)
                  ELSE /\ Holding(isomap, c, "Rock") = 0..(height_noise[c] - 1)
                       /\ Filled(isomap, c) = 0..(height_noise[c] - 1)

\* A finished grid with a soil column of rock, soil and grass, one of bare
\* rock in the soil branch, and a column of another branch.
C2_Witness ==
    /\ gen = "TerGenTwo"
    /\ pc = "done"
    /\ \E c \in Processed :
          /\ branch[c] = "soil"
          /\ layer_noise[c] >= 1
          /\ Holding(isomap, c, "Soil") # {}
          /\ Holding(isomap, c, "Grass") # {}
    /\ \E c \in Processed : branch[c] # "soil"

\* ---------------------------------------------------------------- C3
\* A generator whose only builder call was set_len.
OtherwiseDefault ==
    /\ gen \in {"TerGenOne", "TerGenTwo"}
    /\ gen = "TerGenTwo" =>
        /\ layer_height = DEFAULT_LAYER_HEIGHT
        /\ min_soil_cutoff = DEFAULT_MIN_SOIL_CUTOFF
        /\ max_water_level = DEFAULT_MAX_WATER_LEVEL

\* C3: for every edge length L >= 1, generate of a generator built with
\* set_len(L) and otherwise default parameters returns a grid of shape
\* (L, L, L), whose IsoMap::len is L.
C3_ShapeIsLenCubed ==
    (OtherwiseDefault /\ pc \in {"done", "panicked"}) =>
        /\ pc = "done"
        /\ Shape(isomap) = <<len, len, len>>
        /\ IsoLen(isomap) = len

\* ---------------------------------------------------------------- C4
\* C4: in TerGenOne every column the loops have left is rock below its
\* height and empty from its height up, and the grid holds nothing but
\* rock and air.
C4_RockBelowHeight ==
    (gen = "TerGenOne" /\ pc \in {"generating", "done"}) =>
        /\ \A c \in Processed :
              /\ Holding(isomap, c, "Rock") = 0..(height_noise[c] - 1)
              /\ Holding(isomap, c, "Air") = height_noise[c]..(len - 1)
        /\ \A v \in DOMAIN isomap : isomap[v] \in {"Rock", "Air"}
        /\ pc = "done" => Processed = Columns(len)

\* A finished TerGenOne grid with an empty column and a column that is
\* neither empty nor full.
C4_Witness ==
    /\ gen = "TerGenOne"
    /\ pc = "done"
    /\ \E c \in Processed : height_noise[c] = 0
    /\ \E c \in Processed : height_noise[c] > 0 /\ height_noise[c] < len

\* ---------------------------------------------------------------- C5
\* C5: after TerGenTwo::generate no voxel below the drawn water level is
\* empty.  Stated on the grids all of whose columns have a height of at
\* least 1, where no subtraction overflows.
C5_NoAirBelowWaterLevel ==
    (/\ gen = "TerGenTwo"
     /\ pc = "done"
     /\ \A c \in Processed : height_noise[c] >= 1) =>
        \A v \in DOMAIN isomap : v[3] < water_level => isomap[v] # "Air"

\* ---------------------------------------------------------------- C6
\* The blits of the log at the same (x, y), the first in a lower layer.
Stacked(i, j) ==
    /\ blits[i].x = blits[j].x
    /\ blits[i].y = blits[j].y
    /\ blits[i].z < blits[j].z

\* sides_height as render_map reads it when it shifts the origin.
SidesOf(r) == r.height - (r.width \div 2)

\* The blits come into the log one at a time, at its end, and stay: each
\* pair of blits is a blit and the latest one in the state where the later
\* of the two has just been issued.  The properties of pairs are stated
\* of the latest blit against every blit before it.
Latest == Len(blits)
Earlier == 1..(Len(blits) - 1)

\* Every blit of a layer comes before every blit of a layer above it: no
\* blit before the latest is of a layer above it.
LayersInOrder ==
    \A i \in Earlier : blits[i].z <= blits[Latest].z

\* C6 as it is claimed: of two drawn voxels of a column the upper is
\* blitted later, at the same destination x and at a strictly smaller
\* destination y, smaller by (z2 - z1) * sides_height; and the layers are
\* blitted in order.  Stated on the renderers whose tiles are at least as
\* high as their top face, where no subtraction overflows.
C6_UpperLayerStrictlyHigher ==
    (renderer # None /\ renderer[1].height >= renderer[1].width \div 2) =>
        /\ LayersInOrder
        /\ \A i \in Earlier :
              LET j == Latest
              IN  Stacked(i, j) =>
                     /\ blits[j].dest_x = blits[i].dest_x
                     /\ blits[j].dest_y < blits[i].dest_y
                     /\ blits[i].dest_y - blits[j].dest_y =
                           (blits[j].z - blits[i].z) * SidesOf(renderer[1])

\* C6: of two drawn voxels of a column the upper is blitted later, at the
\* same destination x and at a destination y smaller by
\* (z2 - z1) * sides_height, which is strictly smaller when the tiles are
\* higher than their top face (tile_height > tile_width / 2); and the
\* layers are blitted in order.
C6_UpperLayerShiftedBySidesHeight ==
    /\ LayersInOrder
    /\ \A i \in Earlier :
          LET j == Latest
          IN  Stacked(i, j) =>
                 /\ blits[j].dest_x = blits[i].dest_x
                 /\ blits[i].dest_y - blits[j].dest_y =
                       (blits[j].z - blits[i].z) * SidesOf(renderer[1])
                 /\ renderer[1].height > renderer[1].width \div 2
                       => blits[j].dest_y < blits[i].dest_y

\* A finished render of the testing grid with the 24 x 26 tiles: the rock
\* of layer 3 over the rock of layers 0..2 of its column, 14 pixels higher
\* a layer.
C6_Witness ==
    /\ rpc = "ok"
    /\ renderer[1].width = 24
    /\ renderer[1].height = 26
    /\ IsoLen(isomap) = 6
    /\ \E i, j \in DOMAIN blits :
          /\ Stacked(i, j)
          /\ blits[i].z = 0
          /\ blits[j].z = 3
          /\ blits[i].dest_y - blits[j].dest_y = 42

\* ---------------------------------------------------------------- C7
\* C7: the canvas render_map creates is tile_width * len + tile_width * 2
\* wide and floor_height + sides_height * len + tile_height * 2 high, with
\* top_height = tile_width / 2, sides_height = tile_height - top_height and
\* floor_height = len * top_height + sides_height; 192 x 222 for the
\* 24 x 26 tiles and a grid of 6.
C7_CanvasSize ==
    out # None =>
        LET w == renderer[1].width
            h == renderer[1].height
            n == IsoLen(isomap)
            top == w \div 2
            sides == h - top
            floor_h == n * top + sides
        IN  /\ out[1].w = w * n + w * 2
            /\ out[1].h = floor_h + sides * n + h * 2
            /\ (w = 24 /\ h = 26 /\ n = 6) => out[1] = [w |-> 192, h |-> 222]

\* The canvas of the testing grid with the 24 x 26 tiles.
C7_Witness ==
    /\ out = Some([w |-> 192, h |-> 222])
    /\ renderer[1].width = 24
    /\ renderer[1].height = 26
    /\ IsoLen(isomap) = 6

\* ---------------------------------------------------------------- C8
NeedTiles == {"Rock", "Grass", "Soil", "Water"}

IsMissingBlock ==
    config_error # None /\ config_error[1].kind = "MissingBlock"

\* C8: once the descriptor has parsed and the images have loaded,
\* from_config_str fails with MissingBlock exactly when a block other than
\* Air has no tile, and the error names such a block; a renderer it returns
\* has at least one tile for each of Rock, Grass, Soil and Water, and
\* get_random_sprite never panics in render_map.
C8_MissingBlockOrFullAtlas ==
    /\ IsMissingBlock =>
          /\ config_error[1].block \in NeedTiles
          /\ files_with_tiles[config_error[1].block] = 0
          /\ parsed # None /\ parsed[1].files = 0
          /\ renderer = None
    /\ renderer # None =>
          /\ config_error = None
          /\ \A b \in NeedTiles :
                /\ files_with_tiles[b] >= 1
                /\ b \in DOMAIN renderer[1].tiles
                /\ renderer[1].tiles[b] >= 1
    /\ (rpc \notin {"start", "loading"}
        /\ \E b \in NeedTiles : files_with_tiles[b] = 0
        /\ parsed # None /\ parsed[1].files = 0)
          => IsMissingBlock
    /\ render_panic \notin {MissingTiles, EmptyTiles}

\* Only Grass has no tile, and the error names it.
C8_Witness ==
    /\ IsMissingBlock
    /\ config_error[1].block = "Grass"
    /\ \A b \in NeedTiles \ {"Grass"} : files_with_tiles[b] >= 1

\* ---------------------------------------------------------------- C9
Drawn(m) == {v \in DOMAIN m : m[v] # "Air"}

BlitAt(i) == <<blits[i].x, blits[i].y, blits[i].z>>

\* C9: render_map looks no tile up and blits nothing for an Air voxel,
\* and a render that succeeds has blitted each voxel that is not Air
\* exactly once and nothing else.
C9_AirNeverDrawn ==
    /\ \A i \in DOMAIN lookups : lookups[i] # "Air"
    /\ \A i \in DOMAIN blits : blits[i].kind # "Air"
    /\ blits # << >> =>
          isomap[BlitAt(Len(blits))] = blits[Len(blits)].kind
    /\ Len(lookups) >= Len(blits)
    /\ rpc = "ok" =>
          /\ Len(blits) = Cardinality(Drawn(isomap))
          /\ Len(lookups) = Len(blits)
          /\ {BlitAt(i) : i \in DOMAIN blits} = Drawn(isomap)
          /\ \A i, j \in DOMAIN blits : BlitAt(i) = BlitAt(j) => i = j

\* A finished render, with an atlas that has a tile for Air, of a grid
\* that holds Air and four voxels to draw.
C9_Witness ==
    /\ rpc = "ok"
    /\ "Air" \in DOMAIN renderer[1].tiles
    /\ \E v \in DOMAIN isomap : isomap[v] = "Air"
    /\ Len(blits) = 4

\* --------------------------------------------------------------- C10
\* C10: when Surface::new, fill_rect or a blit fails, render_map returns
\* an error that carries the message of that failure and no surface, and
\* the failing operation is the last one: no blit is in the log after a
\* failure of the canvas or of the fill, and a failed blit is the last
\* blit of the log.
C10_FirstFailureEndsRender ==
    /\ sdl.op # "" =>
          /\ rpc = "err"
          /\ result.tag = "Err"
          /\ result.sdl_err = sdl.msg
          /\ sdl.msg \in SdlMessages
          /\ result.surface = None
          /\ out = None
          /\ sdl.op \in {"Surface::new", "fill_rect"} => blits = << >>
          /\ sdl.op = "blit" =>
                /\ blits # << >>
                /\ ~blits[Len(blits)].ok
    /\ \A i \in DOMAIN blits :
          ~blits[i].ok => (i = Len(blits) /\ sdl.op = "blit")
    /\ result.tag = "Ok" => (sdl.op = "" /\ result.surface # None)
    /\ rpc = "err" => sdl.op # ""

\* The third blit of a render fails.
C10_Witness ==
    /\ rpc = "err"
    /\ sdl.op = "blit"
    /\ Len(blits) = 3
    /\ result.sdl_err = sdl.msg

\* --------------------------------------------------------------- C11
\* The columns of the x-slices 0..k.
SlicesUpTo(n, k) == {c \in Columns(n) : c[1] <= k}

\* Column c of the grid m is filled as TerGenOne fills it: rock below the
\* height, air from the height up.
RockBelow(m, c, n) ==
    /\ Holding(m, c, "Rock") = 0..(height_noise[c] - 1)
    /\ Holding(m, c, "Air") = height_noise[c]..(n - 1)

\* The grid before snapshot k, the empty grid before the first.
Before(k) == IF k = 1 THEN new_empty(len) ELSE maps[k - 1]

\* C11: generate_slices pushes one snapshot after each x-slice: while it
\* runs there are as many snapshots as x-slices completed, and it returns
\* len of them; snapshot k (0-based) has the columns with x <= k filled
\* by the rule of TerGenOne and the columns with x > k empty, differs from
\* the snapshot before it only in the x-slice k, and the last snapshot is
\* the whole grid.
C11_OneSnapshotPerSlice ==
    (gen = "TerGenOne" /\ pc \in {"slicing", "sliced"}) =>
        /\ Len(maps) = x
        /\ pc = "sliced" => Len(maps) = len
        /\ \A k \in DOMAIN maps :
              /\ Shape(maps[k]) = <<len, len, len>>
              /\ \A c \in Columns(len) :
                    IF c \in SlicesUpTo(len, k - 1)
                    THEN RockBelow(maps[k], c, len)
                    ELSE Holding(maps[k], c, "Air") = 0..(len - 1)
              /\ \A v \in Cube(len) :
                    maps[k][v] # Before(k)[v] => v[1] = k - 1
        /\ pc = "sliced" =>
              /\ maps[len] = isomap
              /\ \A c \in Columns(len) : RockBelow(isomap, c, len)

\* generate_slices has returned the snapshots of a grid of edge 3 whose
\* slices all hold rock: each snapshot differs from the one before it.
C11_Witness ==
    /\ gen = "TerGenOne"
    /\ pc = "sliced"
    /\ len = 3
    /\ Len(maps) = 3
    /\ \A c \in Columns(len) : height_noise[c] >= 1
    /\ \A k \in 1..3 : maps[k] # Before(k)

\* --------------------------------------------------------------- C12
\* The larger of two numbers.
Max(a, b) == IF a > b THEN a ELSE b

\* C12: TestingGenerator::generate returns a cube of edge e = max(dim, 6)
\* in which, with h = floor(e / 2), the voxels with z < h are Rock, the
\* voxels at z = h with 2 <= x < e - 2 and 2 <= y < e - 2 are Rock, and
\* every other voxel is Air; it never panics.
C12_TestingGrid ==
    (gen = "TestingGenerator" /\ pc # "config") =>
        LET e == Max(dim, 6)
            h == e \div 2
        IN  /\ pc = "done"
            /\ Shape(isomap) = <<e, e, e>>
            /\ DOMAIN isomap = Cube(e)
            /\ \A v \in Cube(e) :
                  isomap[v] =
                     IF v[3] < h THEN "Rock"
                     ELSE IF /\ v[3] = h
                             /\ 2 <= v[1] /\ v[1] < e - 2
                             /\ 2 <= v[2] /\ v[2] < e - 2
                          THEN "Rock"
                     ELSE "Air"

\* The grid of dim 1: 6 x 6 x 6, rock in the layers 0..2 and in a square
\* of 2 x 2 in layer 3.
C12_Witness ==
    /\ gen = "TestingGenerator"
    /\ pc = "done"
    /\ dim = 1
    /\ Shape(isomap) = <<6, 6, 6>>
    /\ Holding(isomap, <<0, 0>>, "Rock") = 0..2
    /\ {v \in DOMAIN isomap : v[3] = 3 /\ isomap[v] = "Rock"} =
          {<<2, 2, 3>>, <<2, 3, 3>>, <<3, 2, 3>>, <<3, 3, 3>>}

\* --------------------------------------------------------------- C13
\* The canvas of the call: the surface while there is one, and the size it
\* was asked with after a failed blit has dropped it.
Canvas ==
    IF out # None THEN out[1]
    ELSE LET r == renderer[1]
             n == IsoLen(isomap)
             sides == SidesHeight(r.width, r.height, FALSE).val
             floor_height == FloorHeight(n, TopHeight(r.width), sides)
         IN  [w |-> SurfWidth(r.width, n),
              h |-> SurfHeight(r.height, n, floor_height, sides)]

\* C13: with tiles at least as high as their top face
\* (tile_height >= tile_width / 2), the destination rectangle of every
\* blit of render_map lies inside the canvas.  Stated of the latest blit,
\* which every blit is when it is issued.
C13_BlitsInsideCanvas ==
    (/\ renderer # None
     /\ renderer[1].height >= renderer[1].width \div 2
     /\ blits # << >>) =>
        LET b == blits[Latest]
            canvas == Canvas
        IN  /\ 0 <= b.dest_x
            /\ b.dest_x + b.w <= canvas.w
            /\ 0 <= b.dest_y
            /\ b.dest_y + b.h <= canvas.h
            /\ b.w = renderer[1].width
            /\ b.h = renderer[1].height

\* A finished render of the testing grid, which draws at the four corners
\* of its floor 0, with the 24 x 26 tiles.
C13_Witness ==
    /\ rpc = "ok"
    /\ renderer[1].width = 24
    /\ renderer[1].height = 26
    /\ IsoLen(isomap) = 6
    /\ \A c \in {<<0, 0>>, <<0, 5>>, <<5, 0>>, <<5, 5>>} :
          \E i \in DOMAIN blits :
             /\ BlitAt(i) = <<c[1], c[2], 0>>
             /\ blits[i].dest_x + blits[i].w <= out[1].w
             /\ blits[i].dest_y + blits[i].h <= out[1].h

\* --------------------------------------------------------------- C14
\* |a|
Abs(a) == IF a < 0 THEN -a ELSE a

\* Two blits of the log are of the same layer.
SameLayer(i, j) == blits[i].z = blits[j].z

\* The destination rectangles of two blits share a pixel.
Overlap(i, j) ==
    /\ Abs(blits[i].dest_x - blits[j].dest_x) < blits[i].w
    /\ Abs(blits[i].dest_y - blits[j].dest_y) < blits[i].h

\* Within a layer the blits are in ascending x and, for equal x, in
\* ascending y.
RowMajor ==
    \A i \in Earlier :
       LET j == Latest
       IN  SameLayer(i, j) =>
              \/ blits[i].x < blits[j].x
              \/ blits[i].x = blits[j].x /\ blits[i].y < blits[j].y

\* Of two overlapping blits of a layer the one with the larger x + y is
\* the later: no blit of the layer before the latest overlaps it with a
\* larger x + y.
NearerLater ==
    \A i \in Earlier :
       LET j == Latest
       IN  (SameLayer(i, j) /\ Overlap(i, j)) =>
              blits[i].x + blits[i].y <= blits[j].x + blits[j].y

\* C14 as it is claimed: within a layer the blits are in ascending x and
\* then ascending y, and of two overlapping blits of a layer the one with
\* the larger x + y is the later, whatever the tiles.  Stated on the
\* renderers whose tiles are at least as high as their top face, where no
\* subtraction overflows.
C14_NearerTileBlittedLater ==
    (renderer # None /\ renderer[1].height >= renderer[1].width \div 2) =>
        /\ RowMajor
        /\ NearerLater

\* C14: within a layer the blits are in ascending x and then ascending y;
\* with tiles at least 2 pixels wide, of two overlapping blits of a layer
\* the one with the larger x + y is the later; with tiles 1 pixel wide
\* every blit of a layer has the same destination.
C14_NearerTileBlittedLaterFromWidthTwo ==
    /\ RowMajor
    /\ (renderer # None /\ renderer[1].width >= 2) => NearerLater
    /\ (renderer # None /\ renderer[1].width = 1) =>
          \A i \in Earlier :
             SameLayer(i, Latest) =>
                /\ blits[i].dest_x = blits[Latest].dest_x
                /\ blits[i].dest_y = blits[Latest].dest_y

\* A finished render of the testing grid with the 6 x 5 tiles: in floor 0
\* the tile (1, 1) overlaps the tile (0, 1) drawn before it and is nearer.
C14_Witness ==
    /\ rpc = "ok"
    /\ renderer[1].width = 6
    /\ renderer[1].height = 5
    /\ IsoLen(isomap) = 6
    /\ \E i, j \in DOMAIN blits :
          /\ i < j
          /\ BlitAt(i) = <<0, 1, 0>>
          /\ BlitAt(j) = <<1, 1, 0>>
          /\ Overlap(i, j)

====
